---- MODULE Spec2Model ----
(***************************************************************************)
(* Entity Store Service (app/main.py, app/models.py): users, projects and  *)
(* courses behind FastAPI handlers, one SQLAlchemy session per request.    *)
(*                                                                         *)
(* A request is a slot r.  get_db opens its session (Begin), the handler   *)
(* runs in one or two store interactions (its existence check, then its    *)
(* flush+commit), and get_db's finally closes the session (Close).  The    *)
(* store applies a commit atomically and checks the constraints that       *)
(* models.py declares.                                                     *)
(***************************************************************************)
EXTENDS Integers, Sequences, FiniteSets, TLC

VARIABLES users, projects, courses, userSeq, projectSeq, courseSeq,
          pc, held, status, body, sess, tx

vars == <<users, projects, courses, userSeq, projectSeq, courseSeq,
          pc, held, status, body, sess, tx>>

store == <<users, projects, courses, userSeq, projectSeq, courseSeq>>

(***************************************************************************)
(* Bounds of the model and the small input sets.                           *)
(***************************************************************************)
MaxUid == 2
MaxPid == 2
MaxCid == 3

Reqs == {"r1", "r2"}

Names == {"n1", "n2"}
Emails == {"e1", "e2"}
Ages == {20, 21}
StudentIds == {"s1", "s2"}
ProjectNames == {"p1", "p2"}
None == "None"
Descriptions == {None, "d1"}
Codes == {"c1", "c2", "c3", "c4"}
UserIds == 1..(MaxUid + 1)
ProjectIds == 1..(MaxPid + 1)

(***************************************************************************)
(* Rows (models.py).                                                       *)
(***************************************************************************)
UserDB(id, name, email, age, student_id) ==
  [id |-> id, name |-> name, email |-> email, age |-> age, student_id |-> student_id]

ProjectDB(project_id, name, description, owner_id) ==
  [project_id |-> project_id, name |-> name, description |-> description,
   owner_id |-> owner_id]

CourseDB(id, code, name, credits) ==
  [id |-> id, code |-> code, name |-> name, credits |-> credits]

NoRow == [id |-> 0]

(***************************************************************************)
(* Request payloads (schemas).  A field of an update payload is unset,     *)
(* null or a value.                                                        *)
(***************************************************************************)
Unset == [kind |-> "unset"]
Null == [kind |-> "null"]
Val(v) == [kind |-> "value", v |-> v]
Opt(S) == {Unset, Null} \cup {Val(v) : v \in S}

UserCreate == [name : Names, email : Emails, age : Ages, student_id : StudentIds]

UserUpdate == [name : Opt({"n2"}), email : Opt({"e2"}), age : Opt({21}),
               student_id : Opt({"s2"})]

ProjectCreate == [name : ProjectNames, description : Descriptions, owner_id : UserIds]

ProjectCreateForUser == [name : ProjectNames, description : Descriptions]

ProjectUpdate == [name : Opt({"p2"}), description : Opt({"d1"}), owner_id : Opt(UserIds)]

CourseCreate == [code : Codes, name : {"cn"}, credits : {5}]

\* payload.model_dump(exclude_unset=True, exclude_none=True): the fields that
\* carry a value, with the value.
model_dump(p) == [f \in {g \in DOMAIN p : p[g].kind = "value"} |-> p[f].v]

(***************************************************************************)
(* Constraints declared in models.py.                                      *)
(***************************************************************************)
\* email declared without unique=True
UniqueEmail_NotDeclared(us) == TRUE

\* email: unique=True
UniqueEmail(us) == \A u, v \in us : u.id # v.id => u.email # v.email

\* student_id declared without unique=True
UniqueStudentId_NotDeclared(us) == TRUE

\* student_id: unique=True
UniqueStudentId(us) == \A u, v \in us : u.id # v.id => u.student_id # v.student_id

\* code: unique=True
UniqueCode(cs) == \A c, d \in cs : c.id # d.id => c.code # d.code

\* owner_id declared as a plain integer column
ForeignKeyOwner_NotDeclared(ps, us) == TRUE

\* owner_id: ForeignKey("users.id")
ForeignKeyOwner(ps, us) == \A p \in ps : \E u \in us : u.id = p.owner_id

\* The store enforces declared foreign keys at flush.
ForeignKeysEnforced == TRUE

IntegrityOK(us, ps, cs) ==
  /\ UniqueEmail(us)
  /\ UniqueStudentId(us)
  /\ UniqueCode(cs)
  /\ ForeignKeysEnforced => ForeignKeyOwner(ps, us)

\* no cascade declared on the relationship or on the foreign key
Cascade_None(ps, uid) == {}

\* relationship(cascade="all,delete-orphan") / ondelete="CASCADE": the rows
\* that go with user uid.
Cascade(ps, uid) == {p \in ps : p.owner_id = uid}

(***************************************************************************)
(* ORM unit of work: an UPDATE carries the attributes whose value differs  *)
(* from the one loaded, and is applied to the row with the loaded primary  *)
(* key.                                                                    *)
(***************************************************************************)
Merge(cur, loaded, new, f) == IF new[f] # loaded[f] THEN new[f] ELSE cur[f]

FlushUser(cur, loaded, new) ==
  UserDB(cur.id, Merge(cur, loaded, new, "name"), Merge(cur, loaded, new, "email"),
         Merge(cur, loaded, new, "age"), Merge(cur, loaded, new, "student_id"))

FlushProject(cur, loaded, new) ==
  ProjectDB(cur.project_id, Merge(cur, loaded, new, "name"),
            Merge(cur, loaded, new, "description"), Merge(cur, loaded, new, "owner_id"))

\* a description that is not sent with a value is cleared
SetAttrs_Nulls(obj, changes, f) ==
  IF f \in DOMAIN changes THEN changes[f] ELSE IF f = "description" THEN None ELSE obj[f]

\* for key, value in changes.items(): setattr(obj, key, value)
SetAttrs(obj, changes, f) == IF f \in DOMAIN changes THEN changes[f] ELSE obj[f]

PatchedUser(u, changes) ==
  UserDB(u.id, SetAttrs(u, changes, "name"), SetAttrs(u, changes, "email"),
         SetAttrs(u, changes, "age"), SetAttrs(u, changes, "student_id"))

PatchedProject(p, changes) ==
  ProjectDB(p.project_id, SetAttrs(p, changes, "name"),
            SetAttrs(p, changes, "description"), SetAttrs(p, changes, "owner_id"))

\* user.name = updated_user.name; ... (PUT)
ReplacedUser(u, payload) ==
  UserDB(u.id, payload.name, payload.email, payload.age, payload.student_id)

ReplacedProject(p, payload) ==
  ProjectDB(p.project_id, payload.name, payload.description, payload.owner_id)

(***************************************************************************)
(* Initial state: empty tables, no request in flight.                      *)
(***************************************************************************)
Idle == [op |-> "none", row |-> NoRow]

InitReqs ==
  /\ pc = [r \in Reqs |-> "idle"]
  /\ held = [r \in Reqs |-> Idle]
  /\ status = [r \in Reqs |-> 0]
  /\ body = [r \in Reqs |-> <<>>]
  /\ sess = [r \in Reqs |-> "none"]
  /\ tx = [r \in Reqs |-> FALSE]

Init ==
  /\ users = {}
  /\ projects = {}
  /\ courses = {}
  /\ userSeq = 0
  /\ projectSeq = 0
  /\ courseSeq = 0
  /\ InitReqs

(***************************************************************************)
(* get_db: the session of a request.                                       *)
(***************************************************************************)
\* db = SessionLocal(); yield db
Begin(r) ==
  /\ pc[r] = "idle"
  /\ pc' = [pc EXCEPT ![r] = "open"]
  /\ sess' = [sess EXCEPT ![r] = "open"]
  /\ status' = [status EXCEPT ![r] = 0]
  /\ UNCHANGED <<store, held, tx, body>>

\* db.close() after the yield with no try/finally: skipped when the handler raises
get_db_exit_NoFinally(st, s) == IF st >= 400 THEN s ELSE "closed"

\* finally: db.close(), whatever the handler's outcome st
get_db_exit(st, s) == "closed"

Close(r) ==
  /\ pc[r] = "exit"
  /\ pc' = [pc EXCEPT ![r] = "idle"]
  /\ sess' = [sess EXCEPT ![r] = get_db_exit(status[r], sess[r])]
  /\ tx' = [tx EXCEPT ![r] = IF sess'[r] = "closed" THEN FALSE ELSE tx[r]]
  /\ body' = [body EXCEPT ![r] = <<>>]
  /\ held' = [held EXCEPT ![r] = Idle]
  /\ UNCHANGED <<store, status>>

\* Handler op of r leaves with status st (returned or raised); row is the
\* object it built or changed (as it set it, before the commit), t tells whether
\* the session is left inside a transaction.
Exit(r, op, row, st, t) ==
  /\ pc' = [pc EXCEPT ![r] = "exit"]
  /\ status' = [status EXCEPT ![r] = st]
  /\ held' = [held EXCEPT ![r] = [op |-> op, row |-> row]]
  /\ tx' = [tx EXCEPT ![r] = t]
  /\ UNCHANGED <<sess, body>>

\* The handler of r passed its existence check and holds the loaded row.
Found(r, op, row) ==
  /\ pc' = [pc EXCEPT ![r] = "found"]
  /\ held' = [held EXCEPT ![r] = [op |-> op, row |-> row]]
  /\ tx' = [tx EXCEPT ![r] = TRUE]
  /\ UNCHANGED <<status, sess, body>>

(***************************************************************************)
(* Users.                                                                  *)
(***************************************************************************)
\* POST /api/users
add_user(r, payload) ==
  /\ pc[r] = "open"
  /\ LET user == UserDB(0, payload.name, payload.email, payload.age,
                        payload.student_id)
         flushed == [user EXCEPT !.id = userSeq + 1]
         us == users \cup {flushed}
     IN IF IntegrityOK(us, projects, courses)
        THEN /\ userSeq < MaxUid
             /\ users' = us
             /\ userSeq' = userSeq + 1
             /\ Exit(r, "add_user", flushed, 201, TRUE)
        ELSE /\ UNCHANGED <<users, userSeq>>
             /\ Exit(r, "add_user", user, 409, FALSE)
  /\ UNCHANGED <<projects, courses, projectSeq, courseSeq>>

\* db.query(UserDB).filter(UserDB.student_id == student_id).first(), then 404
UserByStudentId(r, op, student_id) ==
  /\ pc[r] = "open"
  /\ LET found == {u \in users : u.student_id = student_id}
     IN IF found = {}
        THEN Exit(r, op, NoRow, 404, TRUE)
        ELSE Found(r, op, CHOOSE u \in found : TRUE)
  /\ UNCHANGED store

\* The flush and commit of a loaded user, with no rollback before the 409
CommitUser_NoRollback(r, new) ==
  LET loaded == held[r].row
      c == CHOOSE u \in users : u.id = loaded.id
      us == (users \ {c}) \cup {FlushUser(c, loaded, new)}
  IN /\ users' = us
     /\ Exit(r, held[r].op, new, IF IntegrityOK(us, projects, courses) THEN 200 ELSE 409,
             TRUE)

\* The flush and commit of a loaded user changed to new, then db.refresh.
CommitUser(r, new) ==
  LET loaded == held[r].row
      cur == {u \in users : u.id = loaded.id}
  IN IF cur = {}
     THEN /\ UNCHANGED users
          /\ Exit(r, held[r].op, new, 500, TRUE)
     ELSE LET c == CHOOSE u \in cur : TRUE
              us == (users \ {c}) \cup {FlushUser(c, loaded, new)}
          IN IF IntegrityOK(us, projects, courses)
             THEN /\ users' = us
                  /\ Exit(r, held[r].op, new, 200, TRUE)
             ELSE /\ UNCHANGED users
                  /\ Exit(r, held[r].op, new, 409, FALSE)

\* PUT /api/users/{student_id}
update_user_put_read(r, student_id) == UserByStudentId(r, "put_user", student_id)

update_user_put_commit(r, updated_user) ==
  /\ pc[r] = "found"
  /\ held[r].op = "put_user"
  /\ CommitUser(r, ReplacedUser(held[r].row, updated_user))
  /\ UNCHANGED <<projects, courses, userSeq, projectSeq, courseSeq>>

\* PATCH /api/users/{student_id}
update_user_patch_read(r, student_id) == UserByStudentId(r, "patch_user", student_id)

update_user_patch_commit(r, updated_user) ==
  /\ pc[r] = "found"
  /\ held[r].op = "patch_user"
  /\ CommitUser(r, PatchedUser(held[r].row, model_dump(updated_user)))
  /\ UNCHANGED <<projects, courses, userSeq, projectSeq, courseSeq>>

\* db.get(UserDB, user_id) with no check of the result
UserById_NoCheck(r, op, user_id) ==
  /\ pc[r] = "open"
  /\ Found(r, op, [id |-> user_id])
  /\ UNCHANGED store

\* db.get(UserDB, user_id), then 404
UserById(r, op, user_id) ==
  /\ pc[r] = "open"
  /\ LET found == {u \in users : u.id = user_id}
     IN IF found = {}
        THEN Exit(r, op, NoRow, 404, TRUE)
        ELSE Found(r, op, CHOOSE u \in found : TRUE)
  /\ UNCHANGED store

\* DELETE /api/users/{user_id}
delete_user_read(r, user_id) == UserById(r, "delete_user", user_id)

delete_user_commit(r) ==
  /\ pc[r] = "found"
  /\ held[r].op = "delete_user"
  /\ LET uid == held[r].row.id
     IN /\ users' = {u \in users : u.id # uid}
        /\ projects' = projects \ Cascade(projects, uid)
  /\ Exit(r, "delete_user", NoRow, 204, FALSE)
  /\ UNCHANGED <<courses, userSeq, projectSeq, courseSeq>>

\* GET /api/users/{user_id}
get_user(r, user_id) ==
  /\ pc[r] = "open"
  /\ Exit(r, "get_user", NoRow, IF \E u \in users : u.id = user_id THEN 200 ELSE 404, TRUE)
  /\ UNCHANGED store

(***************************************************************************)
(* Projects.                                                               *)
(***************************************************************************)
\* db.add(proj); commit; db.refresh(proj): 201, or rollback and 409
InsertProject(r, name, description, owner_id) ==
  LET proj == ProjectDB(0, name, description, owner_id)
      flushed == [proj EXCEPT !.project_id = projectSeq + 1]
      ps == projects \cup {flushed}
  IN IF IntegrityOK(users, ps, courses)
     THEN /\ projectSeq < MaxPid
          /\ projects' = ps
          /\ projectSeq' = projectSeq + 1
          /\ Exit(r, held[r].op, flushed, 201, TRUE)
     ELSE /\ UNCHANGED <<projects, projectSeq>>
          /\ Exit(r, held[r].op, proj, 409, FALSE)

\* POST /api/projects
create_project_read(r, project) == UserById(r, "create_project", project.owner_id)

create_project_commit(r, project) ==
  /\ pc[r] = "found"
  /\ held[r].op = "create_project"
  /\ project.owner_id = held[r].row.id
  /\ InsertProject(r, project.name, project.description, project.owner_id)
  /\ UNCHANGED <<users, courses, userSeq, courseSeq>>

\* POST /api/users/{user_id}/projects
create_user_project_read(r, user_id) == UserById(r, "create_user_project", user_id)

create_user_project_commit(r, project) ==
  /\ pc[r] = "found"
  /\ held[r].op = "create_user_project"
  /\ InsertProject(r, project.name, project.description, held[r].row.id)
  /\ UNCHANGED <<users, courses, userSeq, courseSeq>>

\* db.query(ProjectDB).filter(ProjectDB.project_id == project_id).first(), then 404
ProjectById(r, op, project_id) ==
  /\ pc[r] = "open"
  /\ LET found == {p \in projects : p.project_id = project_id}
     IN IF found = {}
        THEN Exit(r, op, NoRow, 404, TRUE)
        ELSE Found(r, op, CHOOSE p \in found : TRUE)
  /\ UNCHANGED store

\* The flush and commit of a loaded project, with no rollback before the 409
CommitProject_NoRollback(r, new) ==
  LET loaded == held[r].row
      cur == {p \in projects : p.project_id = loaded.project_id}
      ps == (projects \ cur) \cup {FlushProject(c, loaded, new) : c \in cur}
  IN /\ projects' = ps
     /\ Exit(r, held[r].op, new, IF IntegrityOK(users, ps, courses) THEN 200 ELSE 409,
             TRUE)

\* The flush and commit of a loaded project changed to new, then db.refresh.
CommitProject(r, new) ==
  LET loaded == held[r].row
      cur == {p \in projects : p.project_id = loaded.project_id}
  IN IF cur = {}
     THEN /\ UNCHANGED projects
          /\ Exit(r, held[r].op, new, 500, TRUE)
     ELSE LET c == CHOOSE p \in cur : TRUE
              ps == (projects \ {c}) \cup {FlushProject(c, loaded, new)}
          IN IF IntegrityOK(users, ps, courses)
             THEN /\ projects' = ps
                  /\ Exit(r, held[r].op, new, 200, TRUE)
             ELSE /\ UNCHANGED projects
                  /\ Exit(r, held[r].op, new, 409, FALSE)

\* PUT /api/projects/{project_id}
update_project_read(r, project_id) == ProjectById(r, "update_project", project_id)

update_project_commit(r, updated) ==
  /\ pc[r] = "found"
  /\ held[r].op = "update_project"
  /\ CommitProject(r, ReplacedProject(held[r].row, updated))
  /\ UNCHANGED <<users, courses, userSeq, projectSeq, courseSeq>>

\* PATCH /api/projects/{project_id}
patch_project_read(r, project_id) == ProjectById(r, "patch_project", project_id)

patch_project_commit(r, updated) ==
  /\ pc[r] = "found"
  /\ held[r].op = "patch_project"
  /\ CommitProject(r, PatchedProject(held[r].row, model_dump(updated)))
  /\ UNCHANGED <<users, courses, userSeq, projectSeq, courseSeq>>

(***************************************************************************)
(* Courses.                                                                *)
(***************************************************************************)
\* POST /api/courses
create_course(r, course) ==
  /\ pc[r] = "open"
  /\ LET db_course == CourseDB(0, course.code, course.name, course.credits)
         flushed == [db_course EXCEPT !.id = courseSeq + 1]
         cs == courses \cup {flushed}
     IN IF IntegrityOK(users, projects, cs)
        THEN /\ courseSeq < MaxCid
             /\ courses' = cs
             /\ courseSeq' = courseSeq + 1
             /\ Exit(r, "create_course", flushed, 201, TRUE)
        ELSE /\ UNCHANGED <<courses, courseSeq>>
             /\ Exit(r, "create_course", db_course, 409, FALSE)
  /\ UNCHANGED <<users, projects, userSeq, projectSeq>>

\* order_by(CourseDB.id)
RECURSIVE OrderById(_)
OrderById(cs) ==
  IF cs = {} THEN <<>>
  ELSE LET first == CHOOSE c \in cs : \A d \in cs : c.id <= d.id
       IN <<first>> \o OrderById(cs \ {first})

Min(a, b) == IF a <= b THEN a ELSE b

\* .limit(offset).offset(limit)
LimitOffset_Swapped(rows, limit, offset) ==
  SubSeq(rows, limit + 1, Min(limit + offset, Len(rows)))

\* .limit(limit).offset(offset)
LimitOffset(rows, limit, offset) == SubSeq(rows, offset + 1, Min(offset + limit, Len(rows)))

\* select(CourseDB).order_by(CourseDB.id).limit(limit).offset(offset)
SelectCourses(cs, limit, offset) == LimitOffset(OrderById(cs), limit, offset)

\* GET /api/courses
list_courses(r, limit, offset) ==
  /\ pc[r] = "open"
  /\ pc' = [pc EXCEPT ![r] = "exit"]
  /\ status' = [status EXCEPT ![r] = 200]
  /\ held' = [held EXCEPT ![r] = [op |-> "list_courses", row |-> NoRow]]
  /\ body' = [body EXCEPT ![r] = SelectCourses(courses, limit, offset)]
  /\ tx' = [tx EXCEPT ![r] = TRUE]
  /\ UNCHANGED <<store, sess>>

(***************************************************************************)
(* A store call that fails with an error other than IntegrityError (the    *)
(* connection is lost, the statement times out).  create_project catches   *)
(* it (except Exception: rollback, 500); every other handler lets it       *)
(* propagate, and the framework answers 500.                               *)
(***************************************************************************)
StoreFault(r) ==
  /\ pc[r] \in {"open", "found"}
  /\ Exit(r, held[r].op, NoRow, 500, held[r].op # "create_project")
  /\ UNCHANGED store

(***************************************************************************)
(* Input sets of the specifications.                                       *)
(***************************************************************************)
UserKeys == [name : {"n1"}, email : Emails, age : {20}, student_id : StudentIds]
UserKeysRace == [name : {"n1"}, email : Emails \cup {"e3"}, age : {20},
                 student_id : StudentIds]
ProjectKeys == [name : {"p1"}, description : {None}, owner_id : UserIds]
ProjectForUserKeys == [name : {"p1"}, description : {None}]
ProjectMove == [name : {"p1"}, description : {None}, owner_id : UserIds]
ProjectPatchMove == [name : {Unset}, description : {Unset},
                     owner_id : {Unset} \cup {Val(u) : u \in UserIds}]
CourseOne == [code : {"c1"}, name : {"cn"}, credits : {5}]
DefaultLimit == 10
DefaultOffset == 0
Limits == {0, 1, 2, 3, DefaultLimit}
Offsets == {DefaultOffset, 1, 2, 3, 4}

(***************************************************************************)
(* SpecUsers: the user handlers, one request at a time.                    *)
(***************************************************************************)
NextUsers == \E r \in {"r1"} :
  \/ Begin(r)
  \/ Close(r)
  \/ \E p \in UserCreate : add_user(r, p)
  \/ \E s \in StudentIds : update_user_put_read(r, s)
  \/ \E p \in UserCreate : update_user_put_commit(r, p)
  \/ \E s \in StudentIds : update_user_patch_read(r, s)
  \/ \E p \in UserUpdate : update_user_patch_commit(r, p)
  \/ \E u \in UserIds : delete_user_read(r, u)
  \/ delete_user_commit(r)
  \/ \E u \in UserIds : create_user_project_read(r, u)
  \/ \E p \in ProjectForUserKeys : create_user_project_commit(r, p)
  \/ \E c \in CourseOne : create_course(r, c)

SpecUsers == Init /\ [][NextUsers]_vars

(***************************************************************************)
(* Spec: users and projects under concurrent requests.                     *)
(***************************************************************************)
Next == \E r \in Reqs :
  \/ Begin(r)
  \/ Close(r)
  \/ \E p \in UserKeys : add_user(r, p)
  \/ \E u \in UserIds : delete_user_read(r, u)
  \/ delete_user_commit(r)
  \/ \E p \in ProjectKeys : create_project_read(r, p)
  \/ \E p \in ProjectKeys : create_project_commit(r, p)
  \/ \E u \in UserIds : create_user_project_read(r, u)
  \/ \E p \in ProjectForUserKeys : create_user_project_commit(r, p)
  \/ \E i \in ProjectIds : update_project_read(r, i)
  \/ \E p \in ProjectMove : update_project_commit(r, p)
  \/ \E i \in ProjectIds : patch_project_read(r, i)
  \/ \E p \in ProjectPatchMove : patch_project_commit(r, p)

Spec == Init /\ [][Next]_vars

(***************************************************************************)
(* SpecRace: concurrent creations on the unique keys.                      *)
(***************************************************************************)
NextRace == \E r \in Reqs :
  \/ Begin(r)
  \/ Close(r)
  \/ \E p \in UserKeysRace : add_user(r, p)
  \/ \E c \in CourseCreate : create_course(r, c)

SpecRace == Init /\ [][NextRace]_vars

(***************************************************************************)
(* SpecCourses: creating and listing courses.                              *)
(***************************************************************************)
NextCourses == \E r \in Reqs :
  \/ Begin(r)
  \/ Close(r)
  \/ \E c \in CourseCreate : create_course(r, c)
  \/ \E l \in Limits, o \in Offsets : list_courses(r, l, o)

SpecCourses == Init /\ [][NextCourses]_vars

(***************************************************************************)
(* SpecUpdate: PUT and PATCH on a store that holds users and a project.    *)
(***************************************************************************)
UserRows(id) == {UserDB(id, p.name, p.email, p.age, p.student_id) : p \in UserCreate}

UserTables ==
  {{u} : u \in UserRows(1)} \cup
  UNION {{{u, v} : v \in {w \in UserRows(2) : /\ u.email # w.email
                                                /\ u.student_id # w.student_id}} :
         u \in UserRows(1)}

InitUpdate ==
  /\ users \in UserTables
  /\ projects \in {{}} \cup {{ProjectDB(1, n, d, o.id)} :
                              n \in ProjectNames, d \in Descriptions, o \in users}
  /\ courses = {}
  /\ userSeq = 2
  /\ projectSeq = 1
  /\ courseSeq = 0
  /\ InitReqs

NextUpdate == \E r \in {"r1"} :
  \/ Begin(r)
  \/ Close(r)
  \/ \E s \in StudentIds : update_user_put_read(r, s)
  \/ \E p \in UserCreate : update_user_put_commit(r, p)
  \/ \E s \in StudentIds : update_user_patch_read(r, s)
  \/ \E p \in UserUpdate : update_user_patch_commit(r, p)
  \/ \E i \in {1, 2} : update_project_read(r, i)
  \/ \E p \in ProjectCreate : update_project_commit(r, p)
  \/ \E i \in {1, 2} : patch_project_read(r, i)
  \/ \E p \in ProjectUpdate : patch_project_commit(r, p)

SpecUpdate == InitUpdate /\ [][NextUpdate]_vars

(***************************************************************************)
(* SpecFaults: every handler, with store calls that may fail.              *)
(***************************************************************************)
NextFaults == \E r \in {"r1"} :
  \/ Begin(r)
  \/ Close(r)
  \/ StoreFault(r)
  \/ \E p \in UserKeys : add_user(r, p)
  \/ \E u \in UserIds : get_user(r, u)
  \/ \E s \in StudentIds : update_user_put_read(r, s)
  \/ \E p \in UserKeys : update_user_put_commit(r, p)
  \/ \E s \in StudentIds : update_user_patch_read(r, s)
  \/ \E p \in UserUpdate : update_user_patch_commit(r, p)
  \/ \E u \in UserIds : delete_user_read(r, u)
  \/ delete_user_commit(r)
  \/ \E p \in ProjectKeys : create_project_read(r, p)
  \/ \E p \in ProjectKeys : create_project_commit(r, p)
  \/ \E u \in UserIds : create_user_project_read(r, u)
  \/ \E p \in ProjectForUserKeys : create_user_project_commit(r, p)
  \/ \E i \in ProjectIds : update_project_read(r, i)
  \/ \E p \in ProjectMove : update_project_commit(r, p)
  \/ \E i \in ProjectIds : patch_project_read(r, i)
  \/ \E p \in ProjectPatchMove : patch_project_commit(r, p)
  \/ \E c \in CourseOne : create_course(r, c)
  \/ \E l \in Limits, o \in Offsets : list_courses(r, l, o)

SpecFaults == Init /\ [][NextFaults]_vars

(***************************************************************************)
(* Properties.                                                             *)
(***************************************************************************)
\* C1: POST /api/users with an email and a student_id that no stored user has
\* answers 201 and adds exactly one user, the payload's; with an email or a
\* student_id of a stored user it answers 409 and users, projects and courses
\* are what they were.
C1_CreateUser ==
  [][\A r \in Reqs, payload \in UserCreate :
       (pc[r] = "open" /\ pc'[r] = "exit" /\ add_user(r, payload)) =>
         IF \A u \in users : /\ u.email # payload.email
                             /\ u.student_id # payload.student_id
         THEN /\ status'[r] = 201
              /\ users \subseteq users'
              /\ Cardinality(users') = Cardinality(users) + 1
              /\ \E u \in users' \ users :
                   /\ u.name = payload.name
                   /\ u.email = payload.email
                   /\ u.age = payload.age
                   /\ u.student_id = payload.student_id
              /\ projects' = projects
              /\ courses' = courses
         ELSE /\ status'[r] = 409
              /\ users' = users
              /\ projects' = projects
              /\ courses' = courses]_vars

\* A second creation with a stored email was answered 409, with a project and
\* a course in the store.
C1_Witness ==
  \E r \in Reqs :
    /\ pc[r] = "exit"
    /\ held[r].op = "add_user"
    /\ status[r] = 409
    /\ \E u \in users : u.email = held[r].row.email /\ u.student_id # held[r].row.student_id
    /\ projects # {}
    /\ courses # {}

\* C6: PUT or PATCH /api/users/{student_id} whose new email or student_id is
\* that of another stored user answers 409, is rolled back and changes no
\* field of any user; and no two stored users ever share an email or a
\* student_id.
C6_UpdateConflict ==
  /\ [](\A u, v \in users :
          u # v => u.id # v.id /\ u.email # v.email /\ u.student_id # v.student_id)
  /\ [][\A r \in Reqs :
          (/\ pc[r] = "found"
           /\ pc'[r] = "exit"
           /\ held[r].op \in {"put_user", "patch_user"}
           /\ \E u \in users :
                /\ u.id # held[r].row.id
                /\ \/ u.email = held'[r].row.email
                   \/ u.student_id = held'[r].row.student_id)
          => (status'[r] = 409 /\ users' = users /\ ~tx'[r])]_vars

\* A PATCH that collided with the other stored user was answered 409.
C6_Witness ==
  \E r \in Reqs :
    /\ pc[r] = "exit"
    /\ held[r].op = "patch_user"
    /\ status[r] = 409
    /\ Cardinality(users) = 2
    /\ \E u \in users : u.id = held[r].row.id /\ u.name # held[r].row.name

\* The commit of an update of the row r holds ends in 200 or 409; after 200 the
\* row has the values want and no other row changed, after 409 nothing changed.
UserFields == {"name", "email", "age", "student_id"}
ProjectFields == {"name", "description", "owner_id"}

C3_UserWritten(r, want) ==
  LET old == CHOOSE u \in users : u.id = held[r].row.id
      new == CHOOSE u \in users' : u.id = held[r].row.id
  IN /\ status'[r] \in {200, 409}
     /\ projects' = projects
     /\ status'[r] = 409 => users' = users
     /\ status'[r] = 200 => /\ \A f \in UserFields : new[f] = want[f]
                            /\ users' \ {new} = users \ {old}

C3_ProjectWritten(r, want) ==
  LET old == CHOOSE q \in projects : q.project_id = held[r].row.project_id
      new == CHOOSE q \in projects' : q.project_id = held[r].row.project_id
  IN /\ status'[r] \in {200, 409}
     /\ users' = users
     /\ status'[r] = 409 => projects' = projects
     /\ status'[r] = 200 => /\ \A f \in ProjectFields : new[f] = want[f]
                            /\ projects' \ {new} = projects \ {old}

\* C3: a PATCH that is applied (200) leaves in the targeted row the payload's
\* value in every field sent with a value and the prior value in every field
\* omitted or sent as null; a PUT that is applied leaves the payload's value in
\* every field.  No other row changes.
C3_PartialUpdate ==
  [][\A r \in Reqs : (pc[r] = "found" /\ pc'[r] = "exit") =>
       LET old == held[r].row
       IN /\ held[r].op = "patch_user" =>
               \A p \in UserUpdate : update_user_patch_commit(r, p) =>
                 C3_UserWritten(r, [f \in UserFields |->
                                     IF p[f].kind = "value" THEN p[f].v ELSE old[f]])
          /\ held[r].op = "put_user" =>
               \A p \in UserCreate : update_user_put_commit(r, p) =>
                 C3_UserWritten(r, [f \in UserFields |-> p[f]])
          /\ held[r].op = "patch_project" =>
               \A p \in ProjectUpdate : patch_project_commit(r, p) =>
                 C3_ProjectWritten(r, [f \in ProjectFields |->
                                        IF p[f].kind = "value" THEN p[f].v ELSE old[f]])
          /\ held[r].op = "update_project" =>
               \A p \in ProjectCreate : update_project_commit(r, p) =>
                 C3_ProjectWritten(r, [f \in ProjectFields |-> p[f]])]_vars

\* A PATCH of a project was applied and the project still has a description.
C3_Witness ==
  \E r \in Reqs :
    /\ pc[r] = "exit"
    /\ held[r].op = "patch_project"
    /\ status[r] = 200
    /\ \E q \in projects : q.description = "d1" /\ q.name = "p2"

\* C2: the commit of DELETE /api/users/{user_id} answers 204 and removes, in
\* that one step, the user and every project the user owns, and nothing else;
\* in no state does a project outlive its owner.
C2_DeleteCascade ==
  /\ [](\A q \in projects : q.owner_id \in {u.id : u \in users})
  /\ [][\A r \in Reqs :
          (pc[r] = "found" /\ pc'[r] = "exit" /\ held[r].op = "delete_user") =>
            LET uid == held[r].row.id
            IN /\ status'[r] = 204
               /\ users' = {u \in users : u.id # uid}
               /\ projects' = {q \in projects : q.owner_id # uid}
               /\ courses' = courses]_vars

\* The only user ever created owned both projects and was deleted.
C2_Witness ==
  \E r \in Reqs :
    /\ pc[r] = "exit"
    /\ held[r].op = "delete_user"
    /\ status[r] = 204
    /\ userSeq = 1
    /\ projectSeq = 2
    /\ users = {}
    /\ projects = {}

\* C4: POST /api/projects with a body owner_id that matches no user, and POST
\* /api/users/{user_id}/projects with a path user_id that matches no user, end
\* in 404 at the existence check, before any write: the store is unchanged.
C4_MissingOwner ==
  [][\A r \in Reqs : (pc[r] = "open" /\ pc'[r] # "open") =>
       /\ \A p \in ProjectKeys :
            (create_project_read(r, p) /\ ~ \E u \in users : u.id = p.owner_id)
            => (pc'[r] = "exit" /\ status'[r] = 404 /\ store' = store)
       /\ \A uid \in UserIds :
            (create_user_project_read(r, uid) /\ ~ \E u \in users : u.id = uid)
            => (pc'[r] = "exit" /\ status'[r] = 404 /\ store' = store)]_vars

\* Both creation routes were answered 404 while a user is stored.
C4_Witness ==
  /\ users # {}
  /\ projects = {}
  /\ \E r, q \in Reqs :
       /\ pc[r] = "exit" /\ held[r].op = "create_project" /\ status[r] = 404
       /\ pc[q] = "exit" /\ held[q].op = "create_user_project" /\ status[q] = 404

\* C7: every stored project's owner_id is the id of a stored user; the commit
\* of a PUT or PATCH of a stored project that changes owner_id (from the value
\* the handler loaded) to an id matching no user answers 409, is rolled back
\* and leaves the projects unchanged.
C7_ReferentialIntegrity ==
  /\ [](\A q \in projects : \E u \in users : u.id = q.owner_id)
  /\ [][\A r \in Reqs :
          (/\ pc[r] = "found"
           /\ pc'[r] = "exit"
           /\ held[r].op \in {"update_project", "patch_project"}
           /\ \E q \in projects : q.project_id = held[r].row.project_id
           /\ held'[r].row.owner_id # held[r].row.owner_id
           /\ ~ \E u \in users : u.id = held'[r].row.owner_id)
          => (status'[r] = 409 /\ projects' = projects /\ ~tx'[r])]_vars

\* A PUT and a PATCH that named a missing owner were answered 409.
C7_Witness ==
  \E r, q \in Reqs :
    /\ pc[r] = "exit" /\ held[r].op = "update_project" /\ status[r] = 409
    /\ pc[q] = "exit" /\ held[q].op = "patch_project" /\ status[q] = 409
    /\ projects # {}

\* C10: a project creation whose owner was deleted between its existence check
\* and its commit answers 409 and inserts nothing; no project is owned by the
\* id of a deleted user.
C10_CreateDeleteRace ==
  /\ [](\A uid \in 1..userSeq :
          (\A u \in users : u.id # uid) => (\A q \in projects : q.owner_id # uid))
  /\ [][\A r \in Reqs :
          (/\ pc[r] = "found"
           /\ pc'[r] = "exit"
           /\ held[r].op \in {"create_project", "create_user_project"}
           /\ \A u \in users : u.id # held[r].row.id)
          => (status'[r] = 409 /\ projects' = projects /\ projectSeq' = projectSeq)]_vars

\* A creation lost the race against the deletion of its owner.
C10_Witness ==
  \E r, q \in Reqs :
    /\ pc[r] = "exit" /\ held[r].op = "create_project" /\ status[r] = 409
    /\ pc[q] = "exit" /\ held[q].op = "delete_user" /\ status[q] = 204
    /\ held[r].row.owner_id \notin {u.id : u \in users}

\* Two requests in flight at once, both past the commit of the same creating
\* handler.
C5_Raced(r, q, op) ==
  /\ r # q
  /\ pc[r] = "exit" /\ held[r].op = op
  /\ pc[q] = "exit" /\ held[q].op = op

\* Exactly one of the two was answered 201 and the other 409, and exactly one
\* of the stored rows rows has the key.
C5_OneWins(r, q, rows) ==
  /\ {status[r], status[q]} = {201, 409}
  /\ Cardinality(rows) = 1

\* The only stored rows among rows are the ones r and q inserted.
C5_Fresh(r, q, rows) == \A u \in rows : u.id \in {held[r].row.id, held[q].row.id}

C8_Page(page, L, O) ==
  LET n == Cardinality(courses)
      rest == IF n > O THEN n - O ELSE 0
  IN /\ Len(page) = IF L < rest THEN L ELSE rest
     /\ \A i \in 1..Len(page) :
          /\ page[i] \in courses
          /\ Cardinality({c \in courses : c.id < page[i].id}) = O + i - 1

\* C8: GET /api/courses?limit=L&offset=O answers the courses that have at
\* least O and fewer than O+L stored courses of smaller id, in ascending id
\* order: the i-th course of the page is the one with exactly O+i-1 courses
\* before it, and the page is empty when O is at least the number of courses.
C8_ListCourses ==
  [][\A r \in Reqs : (pc[r] = "open" /\ pc'[r] = "exit") =>
       \A L \in Limits, O \in Offsets :
         list_courses(r, L, O) => (status'[r] = 200 /\ C8_Page(body'[r], L, O))]_vars

\* With three courses stored, a page of two that starts at the second course.
C8_Witness ==
  \E r \in Reqs :
    /\ pc[r] = "exit"
    /\ held[r].op = "list_courses"
    /\ Cardinality(courses) = 3
    /\ Len(body[r]) = 2
    /\ body[r][1].id = 2
    /\ body[r][2].id = 3

\* C9: a request holds an open session exactly while it is being served: the
\* session is open from get_db's yield to the end of the handler, and once the
\* request is over, whatever its status, the session is closed and no
\* transaction of it is left.
C9_SessionScoped ==
  \A r \in Reqs :
    /\ pc[r] # "idle" => sess[r] = "open"
    /\ pc[r] = "idle" => (sess[r] # "open" /\ ~tx[r])

\* A request ended in 500 on a failed store call, and its session is closed.
C9_Witness ==
  \E r \in Reqs :
    /\ pc[r] = "idle"
    /\ status[r] = 500
    /\ sess[r] = "closed"
    /\ users # {}

====
